---- MODULE Spec2Model ----
(***************************************************************************)
(* Verification model of the product-catalog API: the request admission    *)
(* controller (requestQueueManager, utils/middleware.js) and the           *)
(* cache-aside route handlers (routes/products.js, routes/categories.js).  *)
(*                                                                         *)
(* Time is Date.now() in milliseconds.  One step of the model is one run   *)
(* of synchronous JavaScript between two suspension points.                *)
(***************************************************************************)
EXTENDS Integers, Sequences, FiniteSets, TLC

(***************************************************************************)
(* Bounds of the model.                                                    *)
(***************************************************************************)
NumRequests == 4
MaxTime == 60000
TickStep == 30000
\* the option maxConcurrentRequests (default 1000), here a small bound
maxConcurrentRequests == 2

Requests == 1..NumRequests

\* route handlers that can be in flight together, rows of the products table,
\* and the largest number a query string is read as
NumHandlers == 2
NumProducts == 3
MaxInt == 101
\* the number of requests per window and IP the rate limit stands for (100)
RateLimit == 3

Handlers == 1..NumHandlers

(***************************************************************************)
(* Program constants.                                                      *)
(***************************************************************************)
queueTimeout == 30000
\* the option windowMs of rateLimiter: 15 * 60 * 1000
windowMs == 900000

VARIABLES
  enableQueue,        \* option enableQueue, fixed at construction
  activeRequests,     \* let activeRequests
  requestQueue,       \* const requestQueue: entries [request, timestamp]
  isProcessingQueue,  \* let isProcessingQueue
  now,                \* Date.now()
  phase,              \* per request: where it is in its life
  replyCode,          \* per request: status code of the reply sent, 0 if none
  acquired,           \* per request: number of activeRequests++ executed for it
  released,           \* per request: number of activeRequests-- executed for it
  enqSeq,             \* history: requests in the order they were pushed
  served,             \* history: entries in the order they were shifted
  headers,            \* per request: X-Queue-Position, X-Queue-Wait-Time
  closed,             \* gracefulShutdown has been called
  nodeEnv,            \* process.env.NODE_ENV
  requests,           \* rateLimiter: const requests = new Map(), by IP
  passedOn,           \* history: the calls of the rateLimiter hook
  store,              \* the products table, rows in index order
  cache,              \* Redis: key -> [val, exp]
  hpc,                \* per route handler: the await it is suspended at
  hreq,               \* per route handler: the request (raw strings)
  hloc,               \* per route handler: its local variables
  hres,               \* per route handler: the reply
  hist,               \* per route handler: history of what it did
  evt                 \* history: count of request starts and replies

admVars == <<enableQueue, activeRequests, requestQueue, isProcessingQueue,
             phase, replyCode, acquired, released, enqSeq, served, headers,
             closed>>
routeVars == <<store, cache, hpc, hreq, hloc, hres, hist, evt>>
vars == <<enableQueue, activeRequests, requestQueue, isProcessingQueue, now,
          phase, replyCode, acquired, released, enqSeq, served, headers, closed,
          nodeEnv, requests, passedOn, store, cache, hpc, hreq, hloc, hres, hist, evt>>

\* rateLimiter after construction: the map is empty
LimiterIdle ==
  /\ requests = [ip \in {} |-> 0]
  /\ passedOn = <<>>

Phases == {"new", "running", "queued", "promoted", "timedout", "completed"}

(***************************************************************************)
(* Values shared by the route handlers.                                    *)
(***************************************************************************)
\* a query parameter that is not given
Undefined == "undefined"

NoBody == [none |-> TRUE]
NoRequest == [op |-> "none", page |-> Undefined, limit |-> Undefined,
              q |-> Undefined, cat |-> Undefined, index |-> Undefined]
NoLocals == [key |-> "", page |-> 0, limit |-> 0, total |-> -1, rows |-> <<>>,
             matches |-> 0, search |-> "", resp |-> NoBody]
NoError == [message |-> "", code |-> Undefined]
NoReply == [code |-> 0, xcache |-> "", body |-> NoBody]
NoHistory == [dbq |-> 0, cacheOps |-> 0, read |-> "none", dbFailed |-> FALSE,
              setRaised |-> FALSE, started |-> 0, ended |-> 0, readAt |-> -1,
              wroteAt |-> -1, key |-> "", totalRaised |-> FALSE, writes |-> 0,
              cachedTotal |-> -1, raised |-> NoError, caught |-> NoError]

\* no route handler runs
RoutesIdle ==
  /\ store = <<>>
  /\ cache = [k \in {} |-> 0]
  /\ hpc = [h \in Handlers |-> "idle"]
  /\ hreq = [h \in Handlers |-> NoRequest]
  /\ hloc = [h \in Handlers |-> NoLocals]
  /\ hres = [h \in Handlers |-> NoReply]
  /\ hist = [h \in Handlers |-> NoHistory]
  /\ evt = 0

QueueIds(q) == [i \in 1..Len(q) |-> q[i].request]

\* a reply without X-Queue-Position and X-Queue-Wait-Time (-1: not set)
NoHeaders == [position |-> -1, waitTime |-> -1]

(***************************************************************************)
(* requestQueueManager: the closure state after construction.              *)
(***************************************************************************)
Init ==
  /\ enableQueue \in BOOLEAN
  /\ activeRequests = 0
  /\ requestQueue = <<>>
  /\ isProcessingQueue = FALSE
  /\ now = 0
  /\ phase = [r \in Requests |-> "new"]
  /\ replyCode = [r \in Requests |-> 0]
  /\ acquired = [r \in Requests |-> 0]
  /\ released = [r \in Requests |-> 0]
  /\ enqSeq = <<>>
  /\ served = <<>>
  /\ headers = [r \in Requests |-> NoHeaders]
  /\ closed = FALSE
  /\ nodeEnv = "production"
  /\ LimiterIdle
  /\ RoutesIdle

\* The admission state as one value, threaded through processQueue.
AdmState ==
  [active |-> activeRequests, queue |-> requestQueue, phase |-> phase,
   code |-> replyCode, acq |-> acquired, rel |-> released, served |-> served]

\* the comparison with its operands exchanged
hasTimedOutReversed(e) == e.timestamp - now > queueTimeout

\* if (Date.now() - timestamp > queueTimeout)
hasTimedOut(e) == now - e.timestamp > queueTimeout

\* requestQueue.pop() in place of shift(): the entry is taken from the tail
popTail(q) == [entry |-> q[Len(q)], rest |-> SubSeq(q, 1, Len(q) - 1)]

\* the head is read and the tail is removed
readHeadPopTail(q) == [entry |-> Head(q), rest |-> SubSeq(q, 1, Len(q) - 1)]

\* requestQueue.shift(): the entry taken and the queue left
shift(q) == [entry |-> Head(q), rest |-> Tail(q)]

\* queueEntry.done: () => { activeRequests--; processQueue(); }
\* The nested processQueue() returns at once: isProcessingQueue is true while
\* the drain that called done() runs.  The hook's own done (Fastify's
\* continuation) is not referenced by the entry, so the request's handler is
\* not started.
entryDone(s, r) ==
  [s EXCEPT !.active = @ - 1, !.rel[r] = @ + 1]

\* the body of the while loop of processQueue
RECURSIVE drainLoop(_)
drainLoop(s) ==
  IF Len(s.queue) > 0 /\ s.active < maxConcurrentRequests
  THEN LET e == shift(s.queue).entry
           rest == shift(s.queue).rest
           r == e.request
       IN IF hasTimedOut(e)
          THEN drainLoop([s EXCEPT
                 !.queue = rest,
                 !.phase[r] = "timedout",
                 !.code[r] = 503,
                 !.served = Append(@, [request |-> r, wait |-> now - e.timestamp,
                                        outcome |-> "rejected"])])
          ELSE drainLoop(entryDone([s EXCEPT
                 !.queue = rest,
                 !.active = @ + 1,
                 !.acq[r] = @ + 1,
                 !.phase[r] = "promoted",
                 !.served = Append(@, [request |-> r, wait |-> now - e.timestamp,
                                        outcome |-> "admitted"])], r))
  ELSE s

\* const processQueue = async () => {...}: no await inside, it runs to its end
processQueue(s) ==
  IF isProcessingQueue \/ Len(s.queue) = 0 THEN s ELSE drainLoop(s)

SetAdm(s) ==
  /\ activeRequests' = s.active
  /\ requestQueue' = s.queue
  /\ phase' = s.phase
  /\ replyCode' = s.code
  /\ acquired' = s.acq
  /\ released' = s.rel
  /\ served' = s.served

\* no admission test: every request is admitted
admitsNowAlways == TRUE

\* the admission test without the enableQueue flag
admitsNowIgnoringFlag == activeRequests < maxConcurrentRequests

\* the admission test with <= in place of <
admitsNowOffByOne == ~enableQueue \/ activeRequests <= maxConcurrentRequests

\* if (!enableQueue || activeRequests < maxConcurrentRequests)
admitsNow == ~enableQueue \/ activeRequests < maxConcurrentRequests

\* requestQueue.push(queueEntry)
push(q, e) == Append(q, e)

\* the position counted from 0
queuePositionFromZero(q) == Len(q) - 1

\* reply.header('X-Queue-Position', requestQueue.length), after the push
queuePosition(q) == Len(q)

\* The onRequest hook returned by requestQueueManager, for request r.
requestQueueManager(r) ==
  /\ phase[r] = "new"
  /\ ~closed
  /\ IF admitsNow
     THEN /\ activeRequests' = activeRequests + 1
          /\ acquired' = [acquired EXCEPT ![r] = @ + 1]
          /\ phase' = [phase EXCEPT ![r] = "running"]
          /\ UNCHANGED <<requestQueue, replyCode, released, served, enqSeq, headers>>
     ELSE LET e == [request |-> r, timestamp |-> now]
              s0 == [AdmState EXCEPT !.queue = push(requestQueue, e),
                                     !.phase[r] = "queued"]
          IN /\ SetAdm(IF ~isProcessingQueue THEN processQueue(s0) ELSE s0)
             /\ enqSeq' = Append(enqSeq, r)
             /\ headers' = [headers EXCEPT ![r] =
                              [position |-> queuePosition(push(requestQueue, e)),
                               waitTime |-> now - e.timestamp]]
  /\ UNCHANGED <<enableQueue, isProcessingQueue, now, closed>>
  /\ UNCHANGED <<routeVars, nodeEnv, requests, passedOn>>

\* The handler of an admitted request ends (it returned or it raised) and the
\* reply is sent; the onResponse hook (responseLogger) only logs.
Complete(r) ==
  /\ phase[r] = "running"
  /\ \E c \in {200, 500} : replyCode' = [replyCode EXCEPT ![r] = c]
  /\ phase' = [phase EXCEPT ![r] = "completed"]
  /\ UNCHANGED <<enableQueue, activeRequests, requestQueue, isProcessingQueue,
                 now, acquired, released, enqSeq, served, headers, closed>>
  /\ UNCHANGED <<routeVars, nodeEnv, requests, passedOn>>

\* gracefulShutdown (SIGTERM, SIGINT): app.close() stops the server from
\* accepting requests and waits for the requests in flight; no onClose hook
\* is registered and nothing in it refers to the admission queue.
gracefulShutdown ==
  /\ ~closed
  /\ closed' = TRUE
  /\ UNCHANGED <<enableQueue, activeRequests, requestQueue, isProcessingQueue,
                 now, phase, replyCode, acquired, released, enqSeq, served, headers>>
  /\ UNCHANGED <<routeVars, nodeEnv, requests, passedOn>>

\* Redis drops an entry when its expiration is reached
Unexpired(c, t) ==
  LET live == {k \in DOMAIN c : c[k].exp > t}
  IN [k \in live |-> c[k]]

\* Time passes.
Tick ==
  /\ now + TickStep <= MaxTime
  /\ now' = now + TickStep
  /\ cache' = Unexpired(cache, now')
  /\ UNCHANGED <<admVars, nodeEnv, requests, passedOn>>
  /\ UNCHANGED <<store, hpc, hreq, hloc, hres, hist, evt>>

\* the onRequest hooks startServer registers, in order; the addHook of
\* rateLimiter is commented out
onRequestHooks ==
  <<"requestLogger", "securityHeaders", "requestTimer", "requestValidator",
    "requestQueueManager">>

Next ==
  \/ \E r \in Requests : requestQueueManager(r)
  \/ \E r \in Requests : Complete(r)
  \/ Tick
  \/ gracefulShutdown

Spec == Init /\ [][Next]_vars

\* Every started handler eventually ends and the clock advances; arrivals are
\* the environment's and are not forced.
FairSpec ==
  /\ Spec
  /\ WF_vars(Tick)
  /\ \A r \in Requests : WF_vars(Complete(r))

(***************************************************************************)
(* processQueue on its own.  Through the hook the loop body of             *)
(* processQueue never runs: an entry is pushed only when                   *)
(* activeRequests >= maxConcurrentRequests, and activeRequests is lowered  *)
(* only by queueEntry.done, which only the loop body calls.  SpecDrain     *)
(* therefore applies processQueue to every well-formed admission state     *)
(* (distinct entries, timestamps in arrival order and not in the future,   *)
(* activeRequests <= maxConcurrentRequests), a superset of the states the  *)
(* hook reaches, and keeps every other action.                             *)
(***************************************************************************)
MaxInitQueue == 2

Times == {t \in 0..MaxTime : t % TickStep = 0}

QueueStates(t) ==
  UNION {{q \in [1..n -> [request : Requests, timestamp : {u \in Times : u <= t}]] :
            /\ \A i, j \in 1..n : i # j => q[i].request # q[j].request
            /\ \A i, j \in 1..n : i < j => q[i].timestamp <= q[j].timestamp}
         : n \in 0..MaxInitQueue}

InitDrain ==
  /\ enableQueue = TRUE
  /\ isProcessingQueue = FALSE
  /\ now \in Times
  /\ requestQueue \in QueueStates(now)
  /\ \E R \in SUBSET Requests :
       /\ Cardinality(R) <= maxConcurrentRequests
       /\ \A i \in 1..Len(requestQueue) : requestQueue[i].request \notin R
       /\ activeRequests = Cardinality(R)
       /\ acquired = [r \in Requests |-> IF r \in R THEN 1 ELSE 0]
       /\ phase = [r \in Requests |->
                     IF r \in R THEN "running"
                     ELSE IF \E i \in 1..Len(requestQueue) : requestQueue[i].request = r
                          THEN "queued" ELSE "new"]
  /\ replyCode = [r \in Requests |-> 0]
  /\ released = [r \in Requests |-> 0]
  /\ enqSeq = QueueIds(requestQueue)
  /\ served = <<>>
  /\ headers = [r \in Requests |->
                  IF \E i \in 1..Len(requestQueue) : requestQueue[i].request = r
                  THEN [position |-> CHOOSE i \in 1..Len(requestQueue) :
                                       requestQueue[i].request = r,
                        waitTime |-> 0]
                  ELSE NoHeaders]
  /\ closed = FALSE
  /\ nodeEnv = "production"
  /\ LimiterIdle
  /\ RoutesIdle

\* a call of processQueue()
DrainCall ==
  /\ ~isProcessingQueue
  /\ Len(requestQueue) # 0
  /\ SetAdm(processQueue(AdmState))
  /\ UNCHANGED <<enableQueue, isProcessingQueue, now, enqSeq, headers, closed>>
  /\ UNCHANGED <<routeVars, nodeEnv, requests, passedOn>>

NextDrain ==
  \/ \E r \in Requests : requestQueueManager(r)
  \/ \E r \in Requests : Complete(r)
  \/ Tick
  \/ DrainCall

SpecDrain == InitDrain /\ [][NextDrain]_vars

(***************************************************************************)
(* Route handlers (routes/products.js, routes/categories.js).              *)
(* Query parameters are strings, as Fastify hands them to the handler.     *)
(***************************************************************************)
IntDomain == (0 - 1)..MaxInt

\* the string is the decimal form of an integer
isNumeral(str) == \E n \in IntDomain : ToString(n) = str
numOf(str) == CHOOSE n \in IntDomain : ToString(n) = str

\* parseInt(x) || d: NaN (not a number, or not given) and 0 give the default
parseIntOr(str, d) ==
  IF isNumeral(str) /\ numOf(str) # 0 THEN numOf(str) ELSE d

\* pattern '^[1-9]\d*$'
matchesPositiveInt(str) == \E n \in 1..MaxInt : ToString(n) = str

\* a route without a querystring schema
querySchemaOff(query) == TRUE

\* querySchema, the querystring schema of GET / and GET /search: Fastify
\* validates the query against it before the handler runs and answers a
\* query that fails it with 400 itself.
querySchemaOk(query) ==
  /\ query.page = Undefined \/ matchesPositiveInt(query.page)
  /\ query.limit = Undefined \/ matchesPositiveInt(query.limit)
  /\ query.q = Undefined \/ matchesPositiveInt(query.q)

\* paramsSchema, the params schema of GET /:index
paramsSchemaOk(params) ==
  params.index # Undefined /\ matchesPositiveInt(params.index)

\* validatePaginationParams without its test of the upper bound of limit
validatePaginationParamsNoMax(query) ==
  LET page == parseIntOr(query.page, 1)
      limit == parseIntOr(query.limit, 10)
  IN IF page < 1 THEN [err |-> "Page number must be", page |-> page, limit |-> limit]
     ELSE IF limit < 1 THEN [err |-> "Limit must be", page |-> page, limit |-> limit]
     ELSE [err |-> "", page |-> page, limit |-> limit]

\* validatePaginationParams: err is the start of the message of the Error
\* thrown, "" if it returns
validatePaginationParams(query) ==
  LET page == parseIntOr(query.page, 1)
      limit == parseIntOr(query.limit, 10)
  IN IF page < 1 THEN [err |-> "Page number must be", page |-> page, limit |-> limit]
     ELSE IF limit < 1 THEN [err |-> "Limit must be", page |-> page, limit |-> limit]
     ELSE IF limit > 100 THEN [err |-> "Limit cannot exceed", page |-> page, limit |-> limit]
     ELSE [err |-> "", page |-> page, limit |-> limit]

\* String.prototype.trim, on the strings of the model
trim(str) == IF str = " " THEN "" ELSE str

\* validateSearchParams (search by index number)
validateSearchParams(query) ==
  LET pl == validatePaginationParams(query)
      search == IF query.q # Undefined /\ query.q # "" THEN trim(query.q) ELSE Undefined
  IN IF pl.err # "" THEN [err |-> pl.err, page |-> pl.page, limit |-> pl.limit, search |-> search]
     ELSE IF search # Undefined /\ (~isNumeral(search) \/ numOf(search) < 1)
          THEN [err |-> "Search term must be a positive integer", page |-> pl.page,
                limit |-> pl.limit, search |-> search]
          ELSE [err |-> "", page |-> pl.page, limit |-> pl.limit, search |-> search]

\* the catch block of GET /: the status chosen from the message of the error
listErrorCode(msg) ==
  IF msg \in {"Page number must be", "Limit must be", "Limit cannot exceed"}
  THEN 400 ELSE 500

\* a catch block that answers every error with 500
searchErrorCodeAll500(msg) == 500

\* the catch block of GET /search
searchErrorCode(msg) ==
  IF msg \in {"Page number must be", "Limit must be", "Limit cannot exceed",
              "Search term cannot be"}
  THEN 400 ELSE 500

\* the catch block of GET /latest
latestErrorCode(msg) ==
  IF msg \in {"Limit must be", "Limit cannot exceed"} THEN 400 ELSE 500

\* catch blocks that answer every error with 400
errorCodeAll400(op, msg) == 400

\* the catch block of each handler: the status it answers an error with
errorCode(op, msg) ==
  CASE op = "list" -> listErrorCode(msg)
    [] op = "search" -> searchErrorCode(msg)
    [] op = "latest" -> latestErrorCode(msg)
    [] OTHER -> 500

\* texts of the errors the pg driver raises
ErrorTexts == {"connect ECONNREFUSED", "relation \"products\" does not exist"}

\* the error values of the pg driver: message and native code
errorCodeOf(text) == IF text = "connect ECONNREFUSED" THEN "ECONNREFUSED" ELSE "42P01"
StoreErrors == {[message |-> text, code |-> errorCodeOf(text)] : text \in ErrorTexts}

\* executeQuery: reject(new Error(`Database operation failed: ${err.message}`))
databaseError(text) == "Database operation failed: " \o text

\* the error a handler catches when its query fails with err: executeQuery
\* of the product and category routes rejects with a new Error, which has no
\* code; executeQuery of utils/database.js, which the statistics route
\* imports, throws err itself
executeQueryRejects(op, err) ==
  IF op = "statistics" THEN err
  ELSE [message |-> databaseError(err.message), code |-> Undefined]

\* the message of the 500 reply of each route
failureMessage(op) ==
  CASE op = "list" -> "Failed to fetch products"
    [] op = "search" -> "Failed to search products by index"
    [] op = "latest" -> "Failed to fetch latest products"
    [] op = "category" -> "Failed to fetch products by category"
    [] op = "categories" -> "Failed to fetch categories"
    [] op = "item" -> "Failed to fetch product"
    [] op = "statistics" -> "Failed to generate product statistics report"

\* details: process.env.NODE_ENV === 'development' ? error.message : undefined
\* in the product and category routes; details: error.message in the
\* statistics route
errorDetails(op, msg) ==
  IF op = "statistics" THEN msg
  ELSE IF nodeEnv = "development" THEN msg ELSE Undefined

\* the body of the 500 reply of the catch block of each route
errorReply(op, msg) ==
  [error |-> "Internal Server Error", message |-> failureMessage(op),
   details |-> errorDetails(op, msg)]

\* toLowerCase and encodeURIComponent, on the category names of the model
toLowerCase(str) == IF str = "A" THEN "a" ELSE str
encodeURIComponent(str) == IF str = "a:b" THEN "a%3Ab" ELSE str

(***************************************************************************)
(* Cache keys.                                                             *)
(***************************************************************************)
listKey(page, limit) ==
  "products:page:" \o ToString(page) \o ":limit:" \o ToString(limit)
totalCountKey == "products:total:count"
\* the search key without its own prefix
searchKeyAsListing(indexNumber, page, limit) == listKey(page, limit)
searchKey(indexNumber, page, limit) ==
  "products:search:index:" \o ToString(indexNumber) \o ":page:" \o ToString(page)
    \o ":limit:" \o ToString(limit)
latestKey(limit) == "products:latest:limit:" \o ToString(limit)
categoryKey(name) ==
  "products:category:" \o encodeURIComponent(toLowerCase(name)) \o ":limit:5"
categoriesKey == "categories:all"

(***************************************************************************)
(* The store: the SQL of the handlers on the rows of the model.            *)
(***************************************************************************)
Min(a, b) == IF a < b THEN a ELSE b

\* the category of a row whose column category (TEXT, nullable) is NULL: in
\* a WHERE clause LOWER(category) = x and LOWER(category) != x are both
\* not true for it
Null == "<NULL>"

Catalog ==
  [i \in 1..NumProducts |->
     [id |-> i, index |-> i, category |-> IF i % 2 = 1 THEN "A" ELSE "b"]]

CategoriesTable == <<[id |-> 1, name |-> "A"], [id |-> 2, name |-> "b"]>>

\* LIMIT limit OFFSET offset on rows in order
limitOffset(rows, limit, offset) ==
  IF offset >= Len(rows) THEN <<>> ELSE SubSeq(rows, offset + 1, Min(offset + limit, Len(rows)))

RECURSIVE filterSeq(_, _)
filterSeq(rows, keep) ==
  IF rows = <<>> THEN <<>>
  ELSE IF Head(rows) \in keep THEN <<Head(rows)>> \o filterSeq(Tail(rows), keep)
       ELSE filterSeq(Tail(rows), keep)

reverse(rows) == [i \in 1..Len(rows) |-> rows[Len(rows) + 1 - i]]

\* SELECT * FROM products ORDER BY index
selectPageAll(limit, offset) == store
\* SELECT * FROM products ORDER BY index LIMIT $1 OFFSET $2
selectPage(limit, offset) == limitOffset(store, limit, offset)
\* SELECT COUNT(*) as total FROM products
countAll == Len(store)
\* ... WHERE index = $1 ORDER BY index ASC LIMIT $2 OFFSET $3
selectByIndex(ix, limit, offset) ==
  limitOffset(filterSeq(store, {row \in {store[i] : i \in 1..Len(store)} : row.index = ix}),
              limit, offset)
\* SELECT COUNT(*) as total FROM products WHERE index = $1
countByIndex(ix) == Cardinality({i \in 1..Len(store) : store[i].index = ix})
\* ... ORDER BY index DESC LIMIT $1
selectLatest(limit) == limitOffset(reverse(store), limit, 0)
\* ... WHERE LOWER(category) = LOWER($1) ORDER BY index LIMIT 5
selectCategory(name) ==
  limitOffset(filterSeq(store, {row \in {store[i] : i \in 1..Len(store)} :
                                  /\ row.category # Null
                                  /\ toLowerCase(row.category) = toLowerCase(name)}), 5, 0)
\* a fill query that returns no row
randomFillsNone(name, excludeIds, n) == {<<>>}

\* a fill query without its WHERE clause
randomFillsAnyRow(name, excludeIds, n) ==
  LET cand == {store[i] : i \in 1..Len(store)}
      k == Min(n, Cardinality(cand))
  IN {f \in [1..k -> cand] : \A i, j \in 1..k : i # j => f[i] # f[j]}

\* ... WHERE LOWER(category) != LOWER($1) AND id != ALL($2) ORDER BY RANDOM()
\* LIMIT n: every result the store can give
randomFills(name, excludeIds, n) ==
  LET cand == {row \in {store[i] : i \in 1..Len(store)} :
                 /\ row.category # Null
                 /\ toLowerCase(row.category) # toLowerCase(name)
                 /\ row.id \notin excludeIds}
      k == Min(n, Cardinality(cand))
  IN {f \in [1..k -> cand] : \A i, j \in 1..k : i # j => f[i] # f[j]}
\* SELECT * FROM products LIMIT 1
selectItemAny(ix) == limitOffset(store, 1, 0)
\* SELECT * FROM products WHERE index = $1
selectItem(ix) ==
  filterSeq(store, {row \in {store[i] : i \in 1..Len(store)} : row.index = ix})
\* SELECT id, name, created_at FROM categories ORDER BY name ASC
selectCategories == CategoriesTable

\* SELECT COUNT(DISTINCT category) FROM products
countDistinctCategory ==
  Cardinality({store[i].category : i \in 1..Len(store)} \ {Null})

(***************************************************************************)
(* JSON.stringify and JSON.parse.  The text of an object is the sequence   *)
(* of its members in property order, each <<name, kind, text of value>>;   *)
(* numbers are written in decimal.                                         *)
(***************************************************************************)
rowText(row) ==
  <<<<"id", ToString(row.id)>>, <<"index", ToString(row.index)>>,
    <<"category", row.category>>>>
rowOf(text) ==
  [id |-> numOf(text[1][2]), index |-> numOf(text[2][2]), category |-> text[3][2]]
catText(row) == <<<<"id", ToString(row.id)>>, <<"name", row.name>>>>
catOf(text) == [id |-> numOf(text[1][2]), name |-> text[2][2]]

memberText(name, kind, v) ==
  CASE kind = "number" -> <<name, kind, ToString(v)>>
    [] kind = "string" -> <<name, kind, v>>
    [] kind = "rows" -> <<name, kind, [i \in 1..Len(v) |-> rowText(v[i])]>>
    [] kind = "cats" -> <<name, kind, [i \in 1..Len(v) |-> catText(v[i])]>>

memberValue(m) ==
  CASE m[2] = "number" -> numOf(m[3])
    [] m[2] = "string" -> m[3]
    [] m[2] = "rows" -> [i \in 1..Len(m[3]) |-> rowOf(m[3][i])]
    [] m[2] = "cats" -> [i \in 1..Len(m[3]) |-> catOf(m[3][i])]

\* the members of each response object, in the order the handler writes them
Shape(op) ==
  CASE op = "list" -> <<<<"products", "rows">>, <<"page", "number">>,
                        <<"limit", "number">>, <<"total", "number">>>>
    [] op = "search" -> <<<<"products", "rows">>, <<"page", "number">>,
                          <<"limit", "number">>, <<"total", "number">>,
                          <<"searchTerm", "string">>>>
    [] op = "latest" -> <<<<"products", "rows">>, <<"limit", "number">>,
                          <<"total", "number">>>>
    [] op = "category" -> <<<<"products", "rows">>, <<"category", "string">>,
                            <<"count", "number">>, <<"categoryMatches", "number">>,
                            <<"randomProducts", "number">>>>
    [] op = "categories" -> <<<<"categories", "cats">>, <<"total", "number">>>>

\* JSON.stringify(response) losing the last member of the object
JSONstringifyDropLast(op, obj) ==
  [text |-> [i \in 1..(Len(Shape(op)) - 1) |->
               memberText(Shape(op)[i][1], Shape(op)[i][2], obj[Shape(op)[i][1]])]]

\* JSON.stringify(response)
JSONstringify(op, obj) ==
  [text |-> [i \in 1..Len(Shape(op)) |->
               memberText(Shape(op)[i][1], Shape(op)[i][2], obj[Shape(op)[i][1]])]]

\* the value is the text of a JSON object
isJSON(val) == "text" \in DOMAIN val

\* JSON.parse(cachedData), for a value that is JSON
JSONparse(val) ==
  LET t == val.text
      names == {t[i][1] : i \in 1..Len(t)}
  IN [n \in names |-> memberValue(t[CHOOSE i \in 1..Len(t) : t[i][1] = n])]

\* total.toString() and parseInt(cachedTotal): -1 stands for NaN
numberText(n) == [num |-> ToString(n)]
parseIntValue(val) ==
  IF "num" \in DOMAIN val /\ isNumeral(val.num) THEN numOf(val.num) ELSE -1

\* a value that is neither JSON nor a number
Junk == [junk |-> TRUE]

EmptyCache == [k \in {} |-> Junk]

(***************************************************************************)
(* The handlers.  A handler is suspended at each await: "get" (redis.get   *)
(* of the response), "getTotal" (redis.get of the total count), "query1"   *)
(* and "query2" (the store), "setTotal" and "set" (redis.set).             *)
(***************************************************************************)
ListTTL == 60
TotalTTL == 300
SearchTTL == 60
LatestTTL == 30
CategoryTTL == 60
CategoriesTTL == 300

\* every response written with the EX argument of the listing
TTLSame(op) == ListTTL

\* the EX argument of the redis.set of the response, in seconds
TTL(op) ==
  CASE op = "list" -> ListTTL
    [] op = "search" -> SearchTTL
    [] op = "latest" -> LatestTTL
    [] op = "category" -> CategoryTTL
    [] op = "categories" -> CategoriesTTL

\* !total: undefined, NaN (both -1 here) and 0 are falsy
falsy(total) == total < 1

\* the X-Cache header with every reply tagged MISS
XCacheAlwaysMiss(servedFrom) == "MISS"

\* reply.header('X-Cache', ...): HIT on the return of the parsed cached
\* value, MISS on the return of the response built from the store
XCache(servedFrom) == IF servedFrom = "cache" THEN "HIT" ELSE "MISS"

\* the reply is sent and the handler ends
Finish(h, code, xcache, body, hs, e) ==
  /\ hres' = [hres EXCEPT ![h] = [code |-> code, xcache |-> xcache, body |-> body]]
  /\ hpc' = [hpc EXCEPT ![h] = "done"]
  /\ hloc' = [hloc EXCEPT ![h] = NoLocals]
  /\ hist' = [hist EXCEPT ![h] = [hs EXCEPT !.ended = e + 1]]
  /\ evt' = e + 1

\* the handler goes on to its next await
Continue(h, pc, loc, hs, e) ==
  /\ hpc' = [hpc EXCEPT ![h] = pc]
  /\ hloc' = [hloc EXCEPT ![h] = loc]
  /\ hist' = [hist EXCEPT ![h] = hs]
  /\ evt' = e
  /\ UNCHANGED hres

\* The request arrives at its route: schema validation by Fastify, then the
\* handler up to its first await, the redis.get of the response.
Start(h, rq) ==
  /\ hpc[h] = "idle"
  /\ \A g \in Handlers : g < h => hpc[g] # "idle"
  /\ hreq' = [hreq EXCEPT ![h] = rq]
  /\ UNCHANGED <<admVars, nodeEnv, requests, passedOn, now, store, cache>>
  /\ LET e == evt + 1
         hs == [hist[h] EXCEPT !.started = e]
         getting == [hs EXCEPT !.cacheOps = 1]
     IN CASE rq.op = "list" ->
               IF ~querySchemaOk(rq) THEN Finish(h, 400, "", NoBody, hs, e)
               ELSE LET v == validatePaginationParams(rq)
                    IN IF v.err # "" THEN Finish(h, listErrorCode(v.err), "", NoBody, hs, e)
                       ELSE Continue(h, "get",
                              [NoLocals EXCEPT !.key = listKey(v.page, v.limit),
                                               !.page = v.page, !.limit = v.limit],
                              getting, e)
          [] rq.op = "search" ->
               IF ~querySchemaOk(rq) THEN Finish(h, 400, "", NoBody, hs, e)
               ELSE LET v == validateSearchParams(rq)
                    IN IF v.err # "" THEN Finish(h, searchErrorCode(v.err), "", NoBody, hs, e)
                       ELSE IF v.search = Undefined \/ v.search = ""
                            THEN Finish(h, 400, "", NoBody, hs, e)
                       ELSE IF ~isNumeral(v.search) \/ numOf(v.search) < 1
                            THEN Finish(h, 400, "", NoBody, hs, e)
                       ELSE Continue(h, "get",
                              [NoLocals EXCEPT
                                 !.key = searchKey(numOf(v.search), v.page, v.limit),
                                 !.page = v.page, !.limit = v.limit, !.search = v.search],
                              getting, e)
          [] rq.op = "latest" ->
               IF ~(rq.limit = Undefined \/ matchesPositiveInt(rq.limit))
               THEN Finish(h, 400, "", NoBody, hs, e)
               ELSE LET limit == parseIntOr(rq.limit, 8)
                    IN IF limit < 1 THEN Finish(h, latestErrorCode("Limit must be"), "", NoBody, hs, e)
                       ELSE IF limit > 50
                            THEN Finish(h, latestErrorCode("Limit cannot exceed"), "", NoBody, hs, e)
                       ELSE Continue(h, "get",
                              [NoLocals EXCEPT !.key = latestKey(limit), !.limit = limit],
                              getting, e)
          [] rq.op = "category" ->
               IF ~(Len(rq.cat) >= 1 /\ Len(rq.cat) <= 50)
               THEN Finish(h, 400, "", NoBody, hs, e)
               ELSE IF trim(rq.cat) = "" THEN Finish(h, 400, "", NoBody, hs, e)
               ELSE Continue(h, "get",
                      [NoLocals EXCEPT !.key = categoryKey(trim(rq.cat)),
                                       !.search = trim(rq.cat)],
                      getting, e)
          [] rq.op = "categories" ->
               Continue(h, "get", [NoLocals EXCEPT !.key = categoriesKey], getting, e)
          [] rq.op = "item" ->
               IF ~paramsSchemaOk(rq) THEN Finish(h, 400, "", NoBody, hs, e)
               ELSE IF ~isNumeral(rq.index) \/ numOf(rq.index) < 1
                    THEN Finish(h, 400, "", NoBody, hs, e)
               ELSE Continue(h, "query1", [NoLocals EXCEPT !.search = rq.index],
                             [hs EXCEPT !.dbq = 1], e)
          [] rq.op = "statistics" ->
               Continue(h, "query1", NoLocals, [hs EXCEPT !.dbq = 1], e)

\* the read without its try block: the error of JSON.parse reaches the
\* catch block of the handler
cacheReadRethrows(op) == "fail"

\* the catch block around the cache read of every handler: the error of
\* redis.get or of JSON.parse is logged and the handler goes on as on a miss
cacheReadCatch(op) == "miss"

\* the object a parsed value gives
parsed(val) == IF isJSON(val) THEN JSONparse(val) ELSE NoBody

\* the CSV of GET /download, of the statistics the model's rows have
statisticsCsv(total, categories) ==
  [csv |-> "metric,value\ntotal_products," \o ToString(total)
             \o "\nunique_categories," \o ToString(categories)]

\* A redis.get returns or raises.
RedisGetReturns(h) ==
  /\ hpc[h] \in {"get", "getTotal"}
  /\ UNCHANGED <<admVars, nodeEnv, requests, passedOn, now, store, cache, hreq>>
  /\ \E raised \in BOOLEAN :
       LET loc == hloc[h]
           op == hreq[h].op
           k == IF hpc[h] = "get" THEN loc.key ELSE totalCountKey
           present == ~raised /\ k \in DOMAIN cache
       IN IF hpc[h] = "get"
          THEN LET hs == [hist[h] EXCEPT
                            !.key = k,
                            !.readAt = now,
                            !.read = IF raised THEN "raised"
                                     ELSE IF ~present THEN "absent"
                                     ELSE IF isJSON(cache[k].val) THEN "hit" ELSE "junk"]
               IN IF present /\ isJSON(cache[k].val)
                  THEN Finish(h, 200, XCache("cache"), parsed(cache[k].val), hs, evt)
                  ELSE IF (raised \/ present) /\ cacheReadCatch(op) = "fail"
                  THEN Finish(h, 500, "", NoBody, hs, evt)
                  ELSE IF op = "list"
                       THEN Continue(h, "getTotal", loc,
                                     [hs EXCEPT !.cacheOps = @ + 1], evt)
                       ELSE Continue(h, "query1", loc, [hs EXCEPT !.dbq = @ + 1], evt)
          ELSE LET total == IF present THEN parseIntValue(cache[k].val) ELSE -1
               IN Continue(h, "query1", [loc EXCEPT !.total = total],
                           [hist[h] EXCEPT !.dbq = @ + (IF falsy(total) THEN 2 ELSE 1),
                                           !.cachedTotal = total],
                           evt)

\* the response object of each handler
listResponse(rows, page, limit, total) ==
  [products |-> rows, page |-> page, limit |-> limit, total |-> total]
searchResponseNoEcho(rows, page, limit, total, search) ==
  [products |-> rows, page |-> page, limit |-> limit, total |-> total,
   searchTerm |-> ""]
searchResponse(rows, page, limit, total, search) ==
  [products |-> rows, page |-> page, limit |-> limit, total |-> total,
   searchTerm |-> search]
latestResponse(rows, limit, total) ==
  [products |-> rows, limit |-> limit, total |-> total]
categoryResponseNoFill(products, name, matches) ==
  [products |-> products, category |-> name, count |-> Len(products),
   categoryMatches |-> matches, randomProducts |-> 0]
categoryResponse(products, name, matches) ==
  [products |-> products, category |-> name, count |-> Len(products),
   categoryMatches |-> matches,
   randomProducts |-> IF matches < 5 THEN Len(products) - matches ELSE 0]
categoriesResponse(rows) == [categories |-> rows, total |-> Len(rows)]

\* A query of the store returns its rows or fails (executeQuery rejects).
QueryReturns(h) ==
  /\ hpc[h] \in {"query1", "query2"}
  /\ UNCHANGED <<admVars, nodeEnv, requests, passedOn, now, store, cache, hreq>>
  /\ \E failed \in BOOLEAN :
       LET loc == hloc[h]
           op == hreq[h].op
           hs == hist[h]
           setting == [hs EXCEPT !.cacheOps = @ + 1]
           asking == [hs EXCEPT !.dbq = @ + 1]
           offset == (loc.page - 1) * loc.limit
       IN IF failed
          THEN \E err \in StoreErrors :
                 LET caught == executeQueryRejects(op, err)
                 IN Finish(h, errorCode(op, "Database operation failed"), "",
                           errorReply(op, caught.message),
                           [hs EXCEPT !.dbFailed = TRUE, !.raised = err,
                                      !.caught = caught], evt)
          ELSE CASE op = "list" ->
                      LET rows == selectPage(loc.limit, offset)
                      IN IF falsy(loc.total)
                         THEN Continue(h, "setTotal",
                                [loc EXCEPT !.rows = rows, !.total = countAll], setting, evt)
                         ELSE Continue(h, "set",
                                [loc EXCEPT !.resp = listResponse(rows, loc.page, loc.limit,
                                                                  loc.total)],
                                setting, evt)
                 [] op = "search" /\ hpc[h] = "query1" ->
                      Continue(h, "query2",
                        [loc EXCEPT !.rows = selectByIndex(numOf(loc.search), loc.limit, offset)],
                        asking, evt)
                 [] op = "search" /\ hpc[h] = "query2" ->
                      Continue(h, "set",
                        [loc EXCEPT !.resp = searchResponse(loc.rows, loc.page, loc.limit,
                                               countByIndex(numOf(loc.search)), loc.search)],
                        setting, evt)
                 [] op = "latest" /\ hpc[h] = "query1" ->
                      Continue(h, "query2", [loc EXCEPT !.rows = selectLatest(loc.limit)],
                               asking, evt)
                 [] op = "latest" /\ hpc[h] = "query2" ->
                      Continue(h, "set",
                        [loc EXCEPT !.resp = latestResponse(loc.rows, loc.limit, countAll)],
                        setting, evt)
                 [] op = "category" /\ hpc[h] = "query1" ->
                      LET rows == selectCategory(loc.search)
                      IN IF Len(rows) < 5
                         THEN Continue(h, "query2",
                                [loc EXCEPT !.rows = rows, !.matches = Len(rows)], asking, evt)
                         ELSE Continue(h, "set",
                                [loc EXCEPT !.resp = categoryResponse(rows, loc.search, Len(rows))],
                                setting, evt)
                 [] op = "category" /\ hpc[h] = "query2" ->
                      \E fill \in randomFills(loc.search,
                                              {loc.rows[i].id : i \in 1..Len(loc.rows)},
                                              5 - Len(loc.rows)) :
                        LET products == loc.rows \o fill
                        IN IF Len(products) = 0
                           THEN Finish(h, 404, "", NoBody, hs, evt)
                           ELSE Continue(h, "set",
                                  [loc EXCEPT !.resp = categoryResponse(products, loc.search,
                                                                        loc.matches)],
                                  setting, evt)
                 [] op = "item" ->
                      LET rows == selectItem(numOf(loc.search))
                      IN IF Len(rows) = 0 THEN Finish(h, 404, "", NoBody, hs, evt)
                         ELSE Finish(h, 200, "", rows[1], hs, evt)
                 [] op = "categories" ->
                      Continue(h, "set",
                        [loc EXCEPT !.resp = categoriesResponse(selectCategories)],
                        setting, evt)
                 [] op = "statistics" ->
                      Finish(h, 200, "", statisticsCsv(countAll, countDistinctCategory), hs, evt)

\* a set that leaves an existing entry as it is (SET ... NX)
redisSetIfAbsent(c, k, val, ex) ==
  IF k \in DOMAIN c THEN c ELSE (k :> [val |-> val, exp |-> now + ex * 1000]) @@ c

\* redis.set(key, value, 'EX', ex): the entry is replaced and expires ex
\* seconds from now
redisSet(c, k, val, ex) == (k :> [val |-> val, exp |-> now + ex * 1000]) @@ c

\* the write without its try block: the error of redis.set reaches the
\* catch block of the handler
cacheWriteRethrows(op) == "fail"

\* the catch block around every cache write: the error of redis.set is
\* logged and the handler goes on
cacheWriteCatch(op) == "continue"

\* A redis.set returns or raises.
RedisSetReturns(h) ==
  /\ hpc[h] \in {"set", "setTotal"}
  /\ UNCHANGED <<admVars, nodeEnv, requests, passedOn, now, store, hreq>>
  /\ \E raised \in BOOLEAN :
       LET loc == hloc[h]
           op == hreq[h].op
           hs == [hist[h] EXCEPT !.writes = @ + (IF raised THEN 0 ELSE 1)]
       IN IF raised /\ cacheWriteCatch(op) = "fail"
          THEN /\ cache' = cache
               /\ Finish(h, 500, "", NoBody,
                         IF hpc[h] = "setTotal" THEN [hs EXCEPT !.totalRaised = TRUE]
                         ELSE [hs EXCEPT !.setRaised = TRUE], evt)
          ELSE IF hpc[h] = "setTotal"
          THEN /\ cache' = IF raised THEN cache
                           ELSE redisSet(cache, totalCountKey, numberText(loc.total),
                                         TotalTTL)
               /\ Continue(h, "set",
                    [loc EXCEPT !.resp = listResponse(loc.rows, loc.page, loc.limit, loc.total)],
                    [hs EXCEPT !.cacheOps = @ + 1, !.totalRaised = raised], evt)
          ELSE /\ cache' = IF raised THEN cache
                           ELSE redisSet(cache, loc.key, JSONstringify(op, loc.resp),
                                         TTL(op))
               /\ Finish(h, 200, XCache("store"), loc.resp,
                         [hs EXCEPT !.setRaised = raised,
                                    !.wroteAt = IF raised THEN -1 ELSE now], evt)

\* Another client of the shared Redis overwrites an entry with a value that
\* is not JSON.
Corrupt(k) ==
  /\ k \in DOMAIN cache
  /\ cache[k].val # Junk
  /\ cache' = [cache EXCEPT ![k].val = Junk]
  /\ UNCHANGED <<admVars, nodeEnv, requests, passedOn, now, store, hpc, hreq, hloc, hres, hist, evt>>

\* the requests of the model
ListRequest(page, limit) ==
  [NoRequest EXCEPT !.op = "list", !.page = page, !.limit = limit]

RouteRequests ==
  {ListRequest(Undefined, Undefined), ListRequest("2", "1"),
   ListRequest("0", Undefined), ListRequest("-1", Undefined),
   ListRequest(Undefined, "0"), ListRequest(Undefined, "-1"),
   ListRequest(Undefined, "101"),
   [NoRequest EXCEPT !.op = "search", !.q = "2"],
   [NoRequest EXCEPT !.op = "search"],
   [NoRequest EXCEPT !.op = "search", !.q = ""],
   [NoRequest EXCEPT !.op = "search", !.q = " "],
   [NoRequest EXCEPT !.op = "search", !.q = "2", !.limit = "101"],
   [NoRequest EXCEPT !.op = "latest"],
   [NoRequest EXCEPT !.op = "category", !.cat = "A"],
   [NoRequest EXCEPT !.op = "category", !.cat = "a"],
   [NoRequest EXCEPT !.op = "categories"],
   [NoRequest EXCEPT !.op = "item", !.index = "1"],
   [NoRequest EXCEPT !.op = "item", !.index = ToString(NumProducts + 1)]}

AdmIdle ==
  /\ enableQueue = FALSE
  /\ activeRequests = 0
  /\ requestQueue = <<>>
  /\ isProcessingQueue = FALSE
  /\ phase = [r \in Requests |-> "new"]
  /\ replyCode = [r \in Requests |-> 0]
  /\ acquired = [r \in Requests |-> 0]
  /\ released = [r \in Requests |-> 0]
  /\ enqSeq = <<>>
  /\ served = <<>>
  /\ headers = [r \in Requests |-> NoHeaders]
  /\ closed = FALSE

InitRoutes ==
  /\ AdmIdle
  /\ nodeEnv = "production"
  /\ LimiterIdle
  /\ now = 0
  /\ store = Catalog
  /\ cache = EmptyCache
  /\ hpc = [h \in Handlers |-> "idle"]
  /\ hreq = [h \in Handlers |-> NoRequest]
  /\ hloc = [h \in Handlers |-> NoLocals]
  /\ hres = [h \in Handlers |-> NoReply]
  /\ hist = [h \in Handlers |-> NoHistory]
  /\ evt = 0

NextRoutes ==
  \/ \E h \in Handlers, rq \in RouteRequests : Start(h, rq)
  \/ \E h \in Handlers : RedisGetReturns(h)
  \/ \E h \in Handlers : QueryReturns(h)
  \/ \E h \in Handlers : RedisSetReturns(h)
  \/ \E k \in DOMAIN cache : Corrupt(k)
  \/ Tick

SpecRoutes == InitRoutes /\ [][NextRoutes]_vars

(***************************************************************************)
(* Listings of the catalog and of an empty products table.                 *)
(***************************************************************************)
ListingRequests == {ListRequest(Undefined, Undefined), ListRequest("2", "1")}

InitListing ==
  /\ AdmIdle
  /\ nodeEnv = "production"
  /\ LimiterIdle
  /\ now = 0
  /\ store \in {Catalog, <<>>}
  /\ cache = EmptyCache
  /\ hpc = [h \in Handlers |-> "idle"]
  /\ hreq = [h \in Handlers |-> NoRequest]
  /\ hloc = [h \in Handlers |-> NoLocals]
  /\ hres = [h \in Handlers |-> NoReply]
  /\ hist = [h \in Handlers |-> NoHistory]
  /\ evt = 0

NextListing ==
  \/ \E h \in Handlers, rq \in ListingRequests : Start(h, rq)
  \/ \E h \in Handlers : RedisGetReturns(h)
  \/ \E h \in Handlers : QueryReturns(h)
  \/ \E h \in Handlers : RedisSetReturns(h)
  \/ \E k \in DOMAIN cache : Corrupt(k)
  \/ Tick

SpecListing == InitListing /\ [][NextListing]_vars

(***************************************************************************)
(* The routes in production and in development mode, with the statistics   *)
(* download beside the product routes.                                     *)
(***************************************************************************)
ErrorRequests ==
  {ListRequest(Undefined, Undefined),
   [NoRequest EXCEPT !.op = "search", !.q = "2"],
   [NoRequest EXCEPT !.op = "latest"],
   [NoRequest EXCEPT !.op = "category", !.cat = "A"],
   [NoRequest EXCEPT !.op = "categories"],
   [NoRequest EXCEPT !.op = "item", !.index = "1"],
   [NoRequest EXCEPT !.op = "statistics"]}

InitErrors ==
  /\ AdmIdle
  /\ nodeEnv \in {"production", "development"}
  /\ LimiterIdle
  /\ now = 0
  /\ store = Catalog
  /\ cache = EmptyCache
  /\ hpc = [h \in Handlers |-> "idle"]
  /\ hreq = [h \in Handlers |-> NoRequest]
  /\ hloc = [h \in Handlers |-> NoLocals]
  /\ hres = [h \in Handlers |-> NoReply]
  /\ hist = [h \in Handlers |-> NoHistory]
  /\ evt = 0

NextErrors ==
  \/ \E h \in Handlers, rq \in ErrorRequests : Start(h, rq)
  \/ \E h \in Handlers : RedisGetReturns(h)
  \/ \E h \in Handlers : QueryReturns(h)
  \/ \E h \in Handlers : RedisSetReturns(h)
  \/ \E k \in DOMAIN cache : Corrupt(k)
  \/ Tick

SpecErrors == InitErrors /\ [][NextErrors]_vars

(***************************************************************************)
(* Category lookups on stores in which category "A" has NumMatching rows,  *)
(* NumFew rows beside NumOthers rows of another category, and on the       *)
(* store of SpecRoutes, where it has 2 rows beside 1.                      *)
(***************************************************************************)
NumMatching == 5
NumFew == 2
NumOthers == 3

\* a products table of nA rows of category "A" and then nB rows of "b"
CatalogOf(nA, nB) ==
  [i \in 1..(nA + nB) |->
     [id |-> i, index |-> i, category |-> IF i <= nA THEN "A" ELSE "b"]]

\* a products table whose only row has no category
NullCatalog == <<[id |-> 1, index |-> 1, category |-> Null]>>

CategoryCatalogs ==
  {CatalogOf(NumMatching, 1), CatalogOf(NumFew, NumOthers), Catalog,
   CatalogOf(0, 0), NullCatalog}

CategoryRequests ==
  {[NoRequest EXCEPT !.op = "category", !.cat = "A"],
   [NoRequest EXCEPT !.op = "category", !.cat = "a"]}

InitCategory ==
  /\ AdmIdle
  /\ nodeEnv = "production"
  /\ LimiterIdle
  /\ now = 0
  /\ store \in CategoryCatalogs
  /\ cache = EmptyCache
  /\ hpc = [h \in Handlers |-> "idle"]
  /\ hreq = [h \in Handlers |-> NoRequest]
  /\ hloc = [h \in Handlers |-> NoLocals]
  /\ hres = [h \in Handlers |-> NoReply]
  /\ hist = [h \in Handlers |-> NoHistory]
  /\ evt = 0

NextCategory ==
  \/ \E h \in Handlers, rq \in CategoryRequests : Start(h, rq)
  \/ \E h \in Handlers : RedisGetReturns(h)
  \/ \E h \in Handlers : QueryReturns(h)
  \/ \E h \in Handlers : RedisSetReturns(h)
  \/ \E k \in DOMAIN cache : Corrupt(k)
  \/ Tick

SpecCategory == InitCategory /\ [][NextCategory]_vars

(***************************************************************************)
(* Claims about the admission controller.                                  *)
(***************************************************************************)
Running == {r \in Requests : phase[r] = "running"}
ServedIds == [i \in 1..Len(served) |-> served[i].request]
InQueue(r) == \E i \in 1..Len(requestQueue) : requestQueue[i].request = r
WaitOf(r) ==
  LET i == CHOOSE j \in 1..Len(requestQueue) : requestQueue[j].request = r
  IN now - requestQueue[i].timestamp

\* C1 as stated: in every reachable state, with queueing enabled or disabled,
\* activeRequests never exceeds maxConcurrentRequests.
C1_Original == activeRequests <= maxConcurrentRequests

\* C1 amended: with queueing enabled, activeRequests never exceeds
\* maxConcurrentRequests in any reachable state.
C1_ActiveBounded == enableQueue => activeRequests <= maxConcurrentRequests

C1_Witness ==
  /\ enableQueue
  /\ activeRequests = maxConcurrentRequests
  /\ Len(requestQueue) > 0

\* C2: with queueing enabled and maxConcurrentRequests requests admitted and
\* not completed, an arriving request is queued and not admitted; and the
\* completion of an admitted request while entries wait promotes exactly one
\* entry, the head of the queue, whose handler then runs.
C2_Claim ==
  /\ [][\A r \in Requests :
          (/\ enableQueue
           /\ Cardinality(Running) = maxConcurrentRequests
           /\ phase[r] = "new" /\ phase'[r] # "new")
          => phase'[r] = "queued"]_vars
  /\ [][\A r \in Requests :
          (/\ enableQueue
           /\ phase[r] = "running" /\ phase'[r] = "completed"
           /\ Len(requestQueue) > 0)
          => (/\ requestQueue' = Tail(requestQueue)
              /\ phase'[Head(requestQueue).request] = "running")]_vars

\* C3: every admitted request releases its slot exactly once when it ends,
\* so that once every admitted request has completed activeRequests is 0.
C3_Claim ==
  /\ \A r \in Requests : phase[r] = "completed" => released[r] = 1
  /\ (\A r \in Requests : acquired[r] > 0 => phase[r] = "completed")
       => activeRequests = 0

\* C7: an entry that has waited longer than queueTimeout when it is taken from
\* the head of the queue is answered with 503 and removed, is never admitted,
\* and activeRequests is not incremented for it.
C7_NoLateAdmission ==
  \A i \in 1..Len(served) :
    served[i].wait > queueTimeout =>
      LET r == served[i].request
      IN /\ served[i].outcome = "rejected"
         /\ replyCode[r] = 503
         /\ phase[r] = "timedout"
         /\ acquired[r] = 0
         /\ ~InQueue(r)

C7_Witness ==
  \E i \in 1..Len(served) : served[i].wait > queueTimeout

\* C8: a queued request that has waited longer than queueTimeout is eventually
\* rejected and removed from the queue, whatever else happens.
C8_Claim ==
  \A r \in Requests :
    (phase[r] = "queued" /\ InQueue(r) /\ WaitOf(r) > queueTimeout)
      ~> (phase[r] = "timedout" /\ ~InQueue(r))

\* C9: every queued request eventually leaves the queue, either rejected or
\* admitted, and an admitted one has its handler resumed and completes.
C9_Claim ==
  \A r \in Requests :
    (phase[r] = "queued") ~> (phase[r] \in {"timedout", "completed"})

\* C10: the queue is strict FIFO: the requests in the order they were pushed
\* are the requests already taken from the queue, in the order they were
\* taken, followed by the requests still waiting, in queue order.
C10_FIFO == enqSeq = ServedIds \o QueueIds(requestQueue)

C10_Witness ==
  /\ Len(served) >= 2
  /\ \E i \in 1..Len(served) : served[i].outcome = "admitted"

(***************************************************************************)
(* Claims about the route handlers.                                        *)
(***************************************************************************)
Done(h) == hpc[h] = "done"

\* the number a raw query value stands for, d if it is not given
valueOf(str, d) == IF str = Undefined THEN d ELSE numOf(str)

\* limit > 100, limit < 1 or page < 1
outOfRange(rq) ==
  \/ valueOf(rq.limit, 10) > 100
  \/ valueOf(rq.limit, 10) < 1
  \/ valueOf(rq.page, 1) < 1

\* C6: a listing request with limit > 100, limit < 1 or page < 1 (0
\* included) is answered 400, and neither the cache nor the store is
\* accessed for it.
C6_Validation ==
  \A h \in Handlers :
    Done(h) /\ hreq[h].op = "list" /\ outOfRange(hreq[h])
      => /\ hres[h].code = 400
         /\ hist[h].cacheOps = 0
         /\ hist[h].dbq = 0

C6_Witness ==
  \E g, h \in Handlers :
    /\ Done(g) /\ hreq[g].op = "list" /\ hreq[g].page = "0" /\ hres[g].code = 400
    /\ Done(h) /\ hreq[h].op = "list" /\ hreq[h].limit = "101" /\ hres[h].code = 400

\* g was served as a MISS whose cache write succeeded, and h is an identical
\* listing request issued after it whose cache read ran before the entry
\* written for g expired
RepeatOf(g, h) ==
  /\ g # h /\ Done(g) /\ Done(h)
  /\ hreq[g].op = "list" /\ hreq[h] = hreq[g]
  /\ hres[g].code = 200 /\ hres[g].xcache = "MISS"
  /\ ~hist[g].setRaised /\ hist[g].wroteAt >= 0
  /\ hist[h].started > hist[g].ended
  /\ hist[h].readAt >= 0
  /\ hist[h].readAt < hist[g].wroteAt + ListTTL * 1000

ServedFromCache(g, h) ==
  /\ hres[h].code = 200
  /\ hres[h].xcache = "HIT"
  /\ hist[h].dbq = 0
  /\ hres[h].body = hres[g].body

\* C4 as stated: after a listing MISS whose cache write succeeded, an
\* identical request before the TTL expires is a HIT, without a query of the
\* store, with the body of the MISS.
C4_Original ==
  \A g, h \in Handlers : RepeatOf(g, h) => ServedFromCache(g, h)

\* C4: after a listing MISS whose cache write succeeded, an identical
\* request whose cache read neither raises nor finds the entry overwritten
\* with a value that is not JSON, before the TTL expires, is a HIT, without
\* a query of the store, with the body of the MISS.
C4_RepeatIsHit ==
  \A g, h \in Handlers :
    RepeatOf(g, h) /\ hist[h].read \notin {"raised", "junk"}
      => ServedFromCache(g, h)

C4_Witness ==
  \E g, h \in Handlers :
    /\ RepeatOf(g, h)
    /\ hist[h].read = "hit"
    /\ hres[h].xcache = "HIT"
    /\ Len(hres[h].body.products) > 0

\* what the handler answers with an empty cache when the store does not fail
emptyCacheBodies(rq) ==
  CASE rq.op = "list" ->
         LET v == validatePaginationParams(rq)
         IN {listResponse(selectPage(v.limit, (v.page - 1) * v.limit),
                          v.page, v.limit, countAll)}
    [] rq.op = "search" ->
         LET v == validateSearchParams(rq)
             ix == numOf(v.search)
         IN {searchResponse(selectByIndex(ix, v.limit, (v.page - 1) * v.limit),
                            v.page, v.limit, countByIndex(ix), v.search)}
    [] rq.op = "latest" ->
         LET limit == parseIntOr(rq.limit, 8)
         IN {latestResponse(selectLatest(limit), limit, countAll)}
    [] rq.op = "category" ->
         LET name == trim(rq.cat)
             rows == selectCategory(name)
         IN IF Len(rows) >= 5 THEN {categoryResponse(rows, name, Len(rows))}
            ELSE {categoryResponse(rows \o fill, name, Len(rows)) :
                    fill \in randomFills(name, {rows[i].id : i \in 1..Len(rows)},
                                         5 - Len(rows))}
    [] rq.op = "categories" -> {categoriesResponse(selectCategories)}

ReadFaulted(h) ==
  /\ Done(h)
  /\ hist[h].read \in {"raised", "junk"}
  /\ ~hist[h].dbFailed

\* C5: for listing, search, latest, category lookup and the category list,
\* a cache get that raises or a cached payload that cannot be deserialized
\* does not fail the request: the store is queried and the reply is the
\* successful reply of the same request on an empty cache.
C5_ReadFailOpen ==
  \A h \in Handlers :
    ReadFaulted(h)
      => /\ hres[h].code = 200
         /\ hres[h].xcache = "MISS"
         /\ hist[h].dbq >= 1
         /\ hres[h].body \in emptyCacheBodies(hreq[h])

C5_Witness ==
  \E g, h \in Handlers :
    /\ ReadFaulted(g) /\ hist[g].read = "raised" /\ hres[g].code = 200
    /\ ReadFaulted(h) /\ hist[h].read = "junk" /\ hres[h].code = 200
    /\ hreq[h].op # "list"

\* the cache key a handler computed, "" if it computed none
KeyOf(h) == IF hloc[h].key # "" THEN hloc[h].key ELSE hist[h].key

\* the normalized parameters of a request that reached the cache
normalized(rq) ==
  CASE rq.op = "list" ->
         LET v == validatePaginationParams(rq) IN <<v.page, v.limit>>
    [] rq.op = "search" ->
         LET v == validateSearchParams(rq) IN <<v.search, v.page, v.limit>>
    [] rq.op = "latest" -> <<parseIntOr(rq.limit, 8)>>
    [] rq.op = "category" -> <<trim(rq.cat)>>
    [] rq.op = "categories" -> <<>>

\* C11: cache keys are deterministic and injective per operation: requests
\* of one operation with identical normalized parameters get the same key,
\* and requests that differ in a normalized parameter (page, limit, search
\* text, category name) get different keys.
C11_KeysInjective ==
  \A g, h \in Handlers :
    KeyOf(g) # "" /\ KeyOf(h) # "" /\ hreq[g].op = hreq[h].op
      => (normalized(hreq[g]) = normalized(hreq[h]) <=> KeyOf(g) = KeyOf(h))

ItemMissing(h) ==
  /\ Done(h)
  /\ hreq[h].op = "item"
  /\ isNumeral(hreq[h].index)
  /\ ~\E i \in 1..Len(store) : store[i].index = numOf(hreq[h].index)
  /\ ~hist[h].dbFailed

\* C12: an item lookup for an index with no row in the store is answered
\* 404 and makes no cache call: it creates no cache entry.
C12_ItemNotFound ==
  \A h \in Handlers :
    ItemMissing(h)
      => /\ hres[h].code = 404
         /\ hist[h].cacheOps = 0
         /\ hist[h].writes = 0
         /\ hist[h].key = ""

C12_Witness ==
  \E h \in Handlers :
    ItemMissing(h) /\ hres[h].code = 404 /\ hist[h].dbq = 1

\* the search term is absent, or empty after trimming
noSearchTerm(rq) == rq.q = Undefined \/ trim(rq.q) = ""

badValue(str, lo, hi) ==
  str # Undefined /\ (~isNumeral(str) \/ numOf(str) < lo \/ numOf(str) > hi)

\* a fault of the caller in the parameters of a search
searchInputFault(rq) ==
  \/ badValue(rq.page, 1, MaxInt)
  \/ badValue(rq.limit, 1, 100)
  \/ noSearchTerm(rq)
  \/ badValue(rq.q, 1, MaxInt)

matching(rq) ==
  {i \in 1..Len(store) : toLowerCase(store[i].category) = toLowerCase(trim(rq.cat))}

CategoryMiss(h) ==
  /\ Done(h)
  /\ hreq[h].op = "category"
  /\ hres[h].code = 200
  /\ hres[h].xcache = "MISS"

AllFromCategory(h) ==
  \A i \in 1..Len(hres[h].body.products) :
    toLowerCase(hres[h].body.products[i].category) = toLowerCase(trim(hreq[h].cat))

FiveFromCategory(h) ==
  /\ Len(hres[h].body.products) = 5
  /\ AllFromCategory(h)
  /\ hres[h].body.randomProducts = 0

TwoAndThree(h) ==
  /\ Len(hres[h].body.products) = 5
  /\ hres[h].body.categoryMatches = 2
  /\ hres[h].body.randomProducts = 3

CachedOps == {"list", "search", "latest", "category", "categories"}

WriteFaulted(h) ==
  /\ Done(h)
  /\ hist[h].setRaised \/ hist[h].totalRaised

\* C16: a cache set that raises after the store queries succeeded does not
\* fail the request: the reply is 200, tagged MISS, with the envelope
\* computed from the store.
C16_WriteFailOpen ==
  \A h \in Handlers :
    WriteFaulted(h)
      => /\ hres[h].code = 200
         /\ hres[h].xcache = "MISS"
         /\ hres[h].body \in emptyCacheBodies(hreq[h])
         /\ hres[h].body # NoBody

C16_Witness ==
  \E g, h \in Handlers :
    /\ WriteFaulted(g) /\ hreq[g].op = "list"
    /\ hist[g].totalRaised /\ hist[g].setRaised /\ hres[g].code = 200
    /\ WriteFaulted(h) /\ hreq[h].op = "category" /\ hres[h].code = 200

\* the store queries each handler makes
queriesOf(op) == IF op \in {"categories", "item"} THEN 1 ELSE 2

\* C17: when a store query fails the request is answered 500, each store
\* query of the request was attempted at most once, and the request wrote
\* no cache entry.
C17_StoreFailure ==
  \A h \in Handlers :
    Done(h) /\ hist[h].dbFailed
      => /\ hres[h].code = 500
         /\ hist[h].dbq <= queriesOf(hreq[h].op)
         /\ hist[h].writes = 0
         /\ hist[h].wroteAt = -1

C17_Witness ==
  \E g, h \in Handlers :
    /\ Done(g) /\ hist[g].dbFailed /\ hreq[g].op = "list" /\ hres[g].code = 500
    /\ Done(h) /\ hist[h].dbFailed /\ hreq[h].op = "search" /\ hist[h].dbq = 2
    /\ hres[h].code = 500

\* C18: a request served from the cache (HIT) receives the body it would
\* have received on a MISS from the same store contents.
C18_HitBodyIsMissBody ==
  \A h \in Handlers :
    Done(h) /\ hres[h].code = 200 /\ hres[h].xcache = "HIT"
      => hres[h].body \in emptyCacheBodies(hreq[h])

\* C19: every 200 reply of the cached operations carries X-Cache HIT or
\* MISS: HIT if and only if the body was read from the cache and no store
\* query was made for the request, MISS if and only if the store was
\* queried for it.
C19_XCache ==
  \A h \in Handlers :
    Done(h) /\ hres[h].code = 200 /\ hreq[h].op \in CachedOps
      => /\ hres[h].xcache \in {"HIT", "MISS"}
         /\ hres[h].xcache = "HIT" <=> (hist[h].read = "hit" /\ hist[h].dbq = 0)
         /\ hres[h].xcache = "MISS" <=> hist[h].dbq >= 1

C19_Witness ==
  \E g, h \in Handlers :
    /\ Done(g) /\ hres[g].code = 200 /\ hres[g].xcache = "MISS" /\ hist[g].dbq >= 1
    /\ Done(h) /\ hres[h].code = 200 /\ hres[h].xcache = "HIT" /\ hist[h].dbq = 0
    /\ hreq[g].op = "search" /\ hreq[h].op = "search"

\* C20: an arriving request is admitted at once (activeRequests raised by
\* one, the handler running) if and only if queueing is disabled or
\* activeRequests < maxConcurrentRequests; with queueing disabled no request
\* is enqueued and the queue stays empty.
C20_ImmediateAdmission ==
  /\ [][\A r \in Requests :
          phase[r] = "new" /\ phase'[r] # "new"
            => ((phase'[r] = "running" /\ activeRequests' = activeRequests + 1)
                  <=> (~enableQueue \/ activeRequests < maxConcurrentRequests))]_vars
  /\ [](~enableQueue => requestQueue = <<>> /\ enqSeq = <<>>)

C20_Witness ==
  /\ ~enableQueue
  /\ activeRequests = maxConcurrentRequests + 1
  /\ \E r \in Requests : phase[r] = "running" /\ acquired[r] = 1
  /\ requestQueue = <<>>

(***************************************************************************)
(* Claims about the queue headers, shutdown, the rate limit and the drain. *)
(***************************************************************************)
\* C21: X-Queue-Position and X-Queue-Wait-Time are set only for a request
\* that was enqueued: a request admitted at once carries neither, and for
\* an enqueued request X-Queue-Position is the queue length right after it
\* was appended (at least 1).
C21_QueueHeaders ==
  /\ [][\A r \in Requests :
          phase[r] = "new" /\ phase'[r] # "new"
            => IF phase'[r] = "running"
               THEN headers'[r] = NoHeaders
               ELSE /\ headers'[r].position = Len(requestQueue) + 1
                    /\ headers'[r].position >= 1
                    /\ headers'[r].waitTime >= 0]_vars
  /\ [](\A r \in Requests :
          headers[r] # NoHeaders <=> \E i \in 1..Len(enqSeq) : enqSeq[i] = r)

C21_Witness ==
  \E q, r \in Requests :
    /\ phase[q] = "running" /\ headers[q] = NoHeaders
    /\ phase[r] = "queued" /\ headers[r].position = 2 /\ headers[r].waitTime = 0
    /\ Len(requestQueue) = 2

\* C22: when the process shuts down, every entry still pending in the
\* admission queue is rejected with a reply, and the queue is empty
\* afterwards.
C22_Claim ==
  closed ~> (/\ requestQueue = <<>>
             /\ \A r \in Requests : phase[r] # "queued")

\* the requests of the model come from one IP address; those that went
\* through the onRequest hooks without a 429
letThrough == {r \in Requests : phase[r] # "new" /\ replyCode[r] # 429}

\* C28: the running server lets at most RateLimit requests of one IP
\* through in one window of windowMs, and answers the others 429.
C28_Claim ==
  now < windowMs => Cardinality(letThrough) <= RateLimit

\* the entries the step took from the queue
shifted == SubSeq(served', Len(served) + 1, Len(served'))

C23_Claim ==
  \A h \in Handlers :
    Done(h) /\ hreq[h].op = "category" /\ ~hist[h].dbFailed
      => /\ hres[h].code = 404 <=> Len(store) = 0
         /\ Len(store) >= 1 => hres[h].code = 200 /\ Len(hres[h].body.products) >= 1
         /\ hres[h].code = 404 => hist[h].writes = 0

\* the expiration, in seconds, of each class of cache entry
classTTL(op, pc) ==
  IF pc = "setTotal" THEN 300
  ELSE CASE op \in {"list", "search", "category", "item"} -> 60
         [] op = "latest" -> 30
         [] op = "categories" -> 300

\* C24: every cache write carries the expiration of its class (60 s
\* listing, item, search, category; 30 s latest; 300 s total count and
\* category list), no entry is without an expiration, and an entry is not
\* served as a HIT after its expiration.
C24_TTLClasses ==
  /\ [][\A h \in Handlers :
          /\ hist'[h].writes = hist[h].writes + 1
               => LET k == IF hpc[h] = "setTotal" THEN totalCountKey ELSE hloc[h].key
                  IN /\ k \in DOMAIN cache'
                     /\ cache'[k].exp = now + classTTL(hreq[h].op, hpc[h]) * 1000
          /\ hpc[h] = "get" /\ hres'[h].xcache = "HIT"
               => /\ hloc[h].key \in DOMAIN cache
                  /\ cache[hloc[h].key].exp > now]_vars
  /\ [](\A k \in DOMAIN cache : cache[k].exp > now)

C24_Witness ==
  /\ latestKey(8) \in DOMAIN cache
  /\ cache[latestKey(8)].exp = now + LatestTTL * 1000
  /\ \E h \in Handlers : Done(h) /\ hreq[h].op = "list" /\ hist[h].writes = 2
  /\ totalCountKey \in DOMAIN cache
  /\ cache[totalCountKey].exp = now + TotalTTL * 1000

\* C25: a valid listing request answered 200 has at most limit products,
\* on the MISS path and on the HIT path.
C25_AtMostLimit ==
  \A h \in Handlers :
    Done(h) /\ hreq[h].op = "list" /\ hres[h].code = 200
      => Len(hres[h].body.products) <= valueOf(hreq[h].limit, 10)

C25_Witness ==
  \E g, h \in Handlers :
    /\ Done(g) /\ hreq[g].op = "list" /\ hreq[g].limit = "1"
    /\ hres[g].xcache = "MISS" /\ Len(hres[g].body.products) = 1
    /\ Done(h) /\ hreq[h].op = "list" /\ hreq[h].limit = "1"
    /\ hres[h].xcache = "HIT" /\ Len(hres[h].body.products) = 1
    /\ Len(store) > 1

ConcurrentMisses(g, h) ==
  /\ g # h /\ Done(g) /\ Done(h)
  /\ hist[g].key # "" /\ hist[g].key = hist[h].key
  /\ hist[g].read = "absent" /\ hist[h].read = "absent"
  /\ hist[g].wroteAt >= 0 /\ hist[h].wroteAt >= 0
  /\ hist[g].started < hist[h].ended /\ hist[h].started < hist[g].ended

\* h wrote the key after every other handler that wrote it
LastWriter(h) ==
  \A o \in Handlers \ {h} :
    hist[o].key = hist[h].key /\ hist[o].wroteAt >= 0 => hist[o].ended < hist[h].ended

\* C30: two concurrent requests that miss the cache for the same key and
\* both query the store and write the cache both return 200 MISS, and the
\* cache then holds the envelope of the later writer with its full TTL
\* (until it expires or another client overwrites it).
C30_ConcurrentMisses ==
  \A g, h \in Handlers :
    ConcurrentMisses(g, h) /\ LastWriter(h)
      => /\ hres[g].code = 200 /\ hres[g].xcache = "MISS"
         /\ hres[h].code = 200 /\ hres[h].xcache = "MISS"
         /\ LET k == hist[h].key
                expiry == hist[h].wroteAt + TTL(hreq[h].op) * 1000
            IN IF k \in DOMAIN cache
               THEN \/ cache[k].val = Junk
                    \/ /\ cache[k].val = JSONstringify(hreq[h].op, hres[h].body)
                       /\ cache[k].exp = expiry
               ELSE now >= expiry

C30_Witness ==
  \E g, h \in Handlers :
    /\ ConcurrentMisses(g, h) /\ LastWriter(h)
    /\ hreq[h].op = "list"
    /\ hist[g].wroteAt < hist[h].wroteAt
    /\ hist[h].key \in DOMAIN cache
    /\ cache[hist[h].key].exp = hist[h].wroteAt + ListTTL * 1000

\* the texts a failed query raises in the handler
RawMessages == ErrorTexts \cup {databaseError(text) : text \in ErrorTexts}

\* the reply of h is a 500
InternalFault(h) == Done(h) /\ hres[h].code = 500

\* C27: in production mode no error response contains the raw internal
\* error message, and the body of a 500 response is the same for every
\* internal fault of a route, whatever the text of the underlying error.
C27_Claim ==
  nodeEnv # "development"
    => /\ \A h \in Handlers :
            InternalFault(h) => hres[h].body.details \notin RawMessages
       /\ \A g, h \in Handlers :
            InternalFault(g) /\ InternalFault(h) /\ hreq[g].op = hreq[h].op
              => hres[g].body = hres[h].body

\* the same, of the product and category routes only
C27_ProductRoutes ==
  nodeEnv # "development"
    => /\ \A h \in Handlers :
            InternalFault(h) /\ hreq[h].op # "statistics"
              => hres[h].body.details \notin RawMessages
       /\ \A g, h \in Handlers :
            /\ InternalFault(g) /\ InternalFault(h)
            /\ hreq[g].op = hreq[h].op /\ hreq[h].op # "statistics"
            => hres[g].body = hres[h].body

(***************************************************************************)
(* Claims about atomicity, terminal transitions and waiting requests.      *)
(***************************************************************************)
\* the requests the step admits through the hook
taken == {r \in Requests : phase[r] = "new" /\ phase'[r] = "running"}

\* C31: the admission decision is atomic: a request that is admitted finds
\* activeRequests below maxConcurrentRequests and the same step increments
\* it, no step admits two requests, no state shows a drain in progress, and
\* so two requests never both take the last free slot.
C31_AtomicAdmission ==
  /\ [][/\ Cardinality(taken) <= 1
        /\ enableQueue /\ taken # {}
             => /\ activeRequests < maxConcurrentRequests
                /\ activeRequests' = activeRequests + 1]_vars
  /\ [](~isProcessingQueue)
  /\ [](enableQueue =>
          Cardinality({r \in Requests : acquired[r] > released[r]})
            <= maxConcurrentRequests)

C31_Witness ==
  /\ enableQueue
  /\ Cardinality({r \in Requests : phase[r] = "running"}) = maxConcurrentRequests
  /\ Cardinality({r \in Requests : phase[r] = "queued"}) = 2
  /\ ~isProcessingQueue

\* the positions of request r in the history of shifted entries
servedAt(r) == {i \in 1..Len(served) : served[i].request = r}

\* C32: each queue entry undergoes at most one terminal transition: it is
\* never both admitted and rejected, never admitted twice and never
\* answered with 503 twice.
C32_OneTerminalTransition ==
  \A r \in Requests :
    /\ Cardinality(servedAt(r)) <= 1
    /\ \A i \in servedAt(r) :
         /\ served[i].outcome = "admitted"
              => phase[r] = "promoted" /\ replyCode[r] # 503 /\ acquired[r] = 1
         /\ served[i].outcome = "rejected"
              => phase[r] = "timedout" /\ replyCode[r] = 503 /\ acquired[r] = 0

C32_Witness ==
  /\ \E i \in 1..Len(served) : served[i].outcome = "rejected"
  /\ \E i \in 1..Len(served) : served[i].outcome = "admitted"
  /\ requestQueue = <<>>

\* C36: with queueing enabled, whenever the queue is non-empty
\* activeRequests equals maxConcurrentRequests, and a request is never
\* admitted by the hook while another waits.
C36_NoFreeSlotWhileWaiting ==
  /\ [](enableQueue /\ Len(requestQueue) > 0
          => activeRequests = maxConcurrentRequests)
  /\ [][enableQueue /\ taken # {} => requestQueue = <<>>]_vars

C36_Witness ==
  /\ enableQueue
  /\ Len(requestQueue) = 1
  /\ activeRequests = maxConcurrentRequests
  /\ \E r \in Requests : phase[r] = "completed"

(***************************************************************************)
(* Claims about the total count, store errors and envelopes.               *)
(***************************************************************************)
\* h missed the page entry and has read the total count key
PastTotalRead(h) ==
  hreq[h].op = "list" /\ hpc[h] \in {"query1", "setTotal", "set", "done"}
  /\ hist[h].cacheOps >= 2

\* C33: on a listing cache miss the count query is sent to the store if and
\* only if no total count is available under products:total:count; a count
\* read from the store is written to that key with a 300 s TTL, apart from
\* the 60 s page entry; a cached count is the envelope's total and the store
\* is not asked for it.
C33_Claim ==
  /\ [](\A h \in Handlers :
          PastTotalRead(h)
            => /\ hist[h].dbq = 2 <=> hist[h].cachedTotal < 0
               /\ Done(h) /\ hres[h].code = 200 /\ hist[h].cachedTotal >= 0
                    => hres[h].body.total = hist[h].cachedTotal /\ hist[h].dbq = 1)
  /\ [][\A h \in Handlers :
          hpc[h] = "setTotal" /\ hist'[h].writes = hist[h].writes + 1
            => /\ cache'[totalCountKey] = [val |-> numberText(countAll),
                                           exp |-> now + 300 * 1000]
               /\ \A k \in DOMAIN cache \ {totalCountKey} :
                    k \in DOMAIN cache' /\ cache'[k] = cache[k]]_vars

C33_Witness ==
  \E g, h \in Handlers :
    /\ Done(g) /\ hist[g].dbq = 2 /\ hist[g].writes = 2
    /\ Done(h) /\ hist[h].dbq = 1 /\ hist[h].cachedTotal = NumProducts
    /\ hres[h].code = 200 /\ hres[h].xcache = "MISS"

\* C34: a store failure reaches the handler's catch block as the store's
\* own error value, with its native error code: it is not wrapped in
\* another error on the way from the query executor, and the query is not
\* sent again.
C34_Claim ==
  \A h \in Handlers :
    Done(h) /\ hist[h].dbFailed
      => /\ hist[h].caught = hist[h].raised
         /\ hist[h].caught.code = hist[h].raised.code
         /\ hist[h].dbq <= 2

\* a 200 category lookup whose envelope has fill items
Filled(h) ==
  /\ Done(h) /\ hreq[h].op = "category" /\ hres[h].code = 200
  /\ hres[h].body.randomProducts > 0

\* C35: in a category lookup that needs a random fill the products of the
\* envelope are pairwise distinct and every fill item belongs to a category
\* other than the requested one, compared case-insensitively.
C35_FillDistinct ==
  \A h \in Handlers :
    Filled(h)
      => LET products == hres[h].body.products
             matches == hres[h].body.categoryMatches
         IN /\ \A i, j \in 1..Len(products) :
                 i # j => products[i].id # products[j].id
            /\ \A i \in (matches + 1)..Len(products) :
                 toLowerCase(products[i].category) # toLowerCase(trim(hreq[h].cat))
            /\ \A i \in 1..matches :
                 toLowerCase(products[i].category) = toLowerCase(trim(hreq[h].cat))

C35_Witness ==
  \E h \in Handlers :
    /\ Filled(h) /\ hres[h].xcache = "MISS"
    /\ hres[h].body.categoryMatches = NumFew
    /\ hres[h].body.randomProducts = NumOthers
    /\ Len(store) = NumFew + NumOthers

\* C39: every 200 category envelope built on the MISS path has count =
\* number of products = categoryMatches + randomProducts, 1 <= count <= 5,
\* 0 <= categoryMatches <= 5 and randomProducts >= 0.
C39_EnvelopeCounts ==
  \A h \in Handlers :
    CategoryMiss(h)
      => LET b == hres[h].body
         IN /\ b.count = Len(b.products)
            /\ b.count = b.categoryMatches + b.randomProducts
            /\ 1 <= b.count /\ b.count <= 5
            /\ 0 <= b.categoryMatches /\ b.categoryMatches <= 5
            /\ b.randomProducts >= 0

C39_Witness ==
  \E g, h \in Handlers :
    /\ CategoryMiss(g) /\ hres[g].body.count = 3
    /\ hres[g].body.categoryMatches = 2 /\ hres[g].body.randomProducts = 1
    /\ CategoryMiss(h) /\ hres[h].body.count = 3
    /\ hist[h].read = "junk"

(***************************************************************************)
(* Claims about what the cache holds and about the keys of the operations. *)
(***************************************************************************)
\* the reply of h is an error response
ErrorReply(h) == Done(h) /\ hres[h].code \in {400, 404, 500}

\* C37: the cache only holds results of successful requests: a request that
\* ends with an error response (400, 404 or 500) has written no cache
\* entry, and the cache changes only by the write of a handler, by the
\* expiry of entries and by other clients of Redis.
C37_ErrorsLeaveCache ==
  /\ [](\A h \in Handlers : ErrorReply(h) => hist[h].writes = 0)
  /\ [][\A h \in Handlers :
          ErrorReply(h)' /\ ~ErrorReply(h) => cache' = cache]_vars
  /\ [][cache' # cache
          => \/ \E h \in Handlers : hist'[h].writes = hist[h].writes + 1
             \/ now' # now
             \/ \E k \in DOMAIN cache : cache[k].val # Junk /\ cache'[k].val = Junk]_vars

C37_Witness ==
  \E g, h \in Handlers :
    /\ Done(g) /\ hres[g].code = 200 /\ hist[g].wroteAt >= 0
    /\ ErrorReply(h) /\ hres[h].code = 500 /\ hist[h].dbFailed
    /\ hist[h].key = hist[g].key /\ hist[h].read = "junk"
    /\ hist[g].ended < hist[h].started
    /\ hist[g].key \in DOMAIN cache /\ cache[hist[g].key].val = Junk

\* the members of the response object of each operation
EnvelopeFields(op) ==
  CASE op = "list" -> {"products", "page", "limit", "total"}
    [] op = "search" -> {"products", "page", "limit", "total", "searchTerm"}
    [] op = "latest" -> {"products", "limit", "total"}
    [] op = "category" ->
         {"products", "category", "count", "categoryMatches", "randomProducts"}
    [] op = "categories" -> {"categories", "total"}

\* C38: cache keys of different operations never coincide (listing pages,
\* the total count, search pages, latest, category lookups, the category
\* list), so an operation never reads an entry written by another one.
C38_KeysDisjoint ==
  /\ \A g, h \in Handlers :
       KeyOf(g) # "" /\ KeyOf(h) # "" /\ hreq[g].op # hreq[h].op
         => KeyOf(g) # KeyOf(h)
  /\ \A h \in Handlers : KeyOf(h) # totalCountKey
  /\ \A h \in Handlers :
       Done(h) /\ hist[h].read = "hit"
         => DOMAIN hres[h].body = EnvelopeFields(hreq[h].op)

C38_Witness ==
  \E g, h \in Handlers :
    /\ Done(g) /\ hreq[g].op = "list" /\ hist[g].wroteAt >= 0
    /\ Done(h) /\ hreq[h].op = "search" /\ hist[h].wroteAt >= 0
    /\ hreq[g].page = hreq[h].page /\ hreq[g].limit = hreq[h].limit
    /\ {hist[g].key, hist[h].key, totalCountKey} \subseteq DOMAIN cache
    /\ Cardinality(DOMAIN cache) = 3

(***************************************************************************)
(* rateLimiter (the hook as written; startServer does not install it).     *)
(***************************************************************************)
maxRequests == 2
LimiterStep == 450000
MaxLimiterTime == 2250000
MaxArrivals == 6
IPs == {"10.0.0.1", "10.0.0.2"}

\* the test of the window with >= in place of >
windowExpiredInclusive(data) == now - data.windowStart >= windowMs

\* if (now - data.windowStart > windowMs)
windowExpired(data) == now - data.windowStart > windowMs

\* the entry of the map after the hook has counted the request
counted(data) ==
  IF windowExpired(data) THEN [count |-> 1, windowStart |-> now]
  ELSE [data EXCEPT !.count = @ + 1]

\* The onRequest hook returned by rateLimiter, for a request of ip.
rateLimiter(ip) ==
  /\ Len(passedOn) < MaxArrivals
  /\ IF ip \notin DOMAIN requests
     THEN /\ requests' = (ip :> [count |-> 1, windowStart |-> now]) @@ requests
          /\ passedOn' = Append(passedOn, [ip |-> ip, at |-> now, code |-> 0])
     ELSE LET data == counted(requests[ip])
          IN /\ requests' = [requests EXCEPT ![ip] = data]
             /\ passedOn' = Append(passedOn,
                    [ip |-> ip, at |-> now,
                     code |-> IF data.count > maxRequests THEN 429 ELSE 0])
  /\ UNCHANGED <<admVars, nodeEnv, now, routeVars>>

\* the setInterval callback: entries whose window has expired are deleted
cleanup ==
  /\ now >= windowMs
  /\ \E ip \in DOMAIN requests : windowExpired(requests[ip])
  /\ requests' = [ip \in {i \in DOMAIN requests : ~windowExpired(requests[i])}
                    |-> requests[ip]]
  /\ UNCHANGED <<admVars, nodeEnv, now, routeVars, passedOn>>

\* Time passes between the requests.
ClockAdvances ==
  /\ now + LimiterStep <= MaxLimiterTime
  /\ now' = now + LimiterStep
  /\ UNCHANGED <<admVars, nodeEnv, routeVars, requests, passedOn>>

InitLimiter ==
  /\ AdmIdle
  /\ nodeEnv = "production"
  /\ LimiterIdle
  /\ now = 0
  /\ RoutesIdle

NextLimiter ==
  \/ \E ip \in IPs : rateLimiter(ip)
  \/ cleanup
  \/ ClockAdvances

SpecLimiter == InitLimiter /\ [][NextLimiter]_vars

\* the calls of the hook for ip before the i-th call
earlier(i) == {j \in 1..(i - 1) : passedOn[j].ip = passedOn[i].ip}

\* the start of the window the i-th call falls in: the time of the IP's
\* first request, or of the first request that arrived more than windowMs
\* after the start of the window before
RECURSIVE windowStartOf(_)
windowStartOf(i) ==
  IF earlier(i) = {} THEN passedOn[i].at
  ELSE LET j == CHOOSE k \in earlier(i) : \A l \in earlier(i) : l <= k
           ws == windowStartOf(j)
       IN IF passedOn[i].at - ws > windowMs THEN passedOn[i].at ELSE ws

\* the number of the i-th call among the calls of its IP in its window
rankInWindow(i) ==
  Cardinality({j \in earlier(i) : windowStartOf(j) = windowStartOf(i)}) + 1

\* the last call of the hook for ip
lastCall(ip) ==
  CHOOSE i \in 1..Len(passedOn) :
    passedOn[i].ip = ip /\ \A j \in 1..Len(passedOn) : passedOn[j].ip = ip => j <= i

\* C40: for each IP, within one window exactly the first maxRequests
\* requests are passed on and every later request of the window is answered
\* 429; the window starts at the IP's first request and is restarted by the
\* first request that arrives more than windowMs after its start, and that
\* request is passed on and counted as 1.
C40_RateLimiter ==
  /\ \A i \in 1..Len(passedOn) :
       /\ passedOn[i].code = 0 <=> rankInWindow(i) <= maxRequests
       /\ passedOn[i].code = 429 <=> rankInWindow(i) > maxRequests
  /\ \A ip \in IPs :
       (\E i \in 1..Len(passedOn) : passedOn[i].ip = ip)
         => LET i == lastCall(ip)
            IN IF ip \in DOMAIN requests
               THEN /\ requests[ip].windowStart = windowStartOf(i)
                    /\ requests[ip].count = rankInWindow(i)
               ELSE now - windowStartOf(i) > windowMs

C40_Witness ==
  \E i, j, k \in 1..Len(passedOn) :
    /\ i < j /\ j < k
    /\ passedOn[i].ip = passedOn[j].ip /\ passedOn[j].ip = passedOn[k].ip
    /\ passedOn[i].code = 429
    /\ passedOn[j].at = windowStartOf(i) + windowMs /\ passedOn[j].code = 429
    /\ passedOn[k].at > windowStartOf(i) + windowMs /\ passedOn[k].code = 0
    /\ rankInWindow(k) = 1
    /\ passedOn[k].ip \in DOMAIN requests /\ requests[passedOn[k].ip].count = 1

====
